---- MODULE Spec2Model ----
(***************************************************************************)
(* Model of the install-script builder: the module registry               *)
(* (src/registry/modules.ts) and the script generator                     *)
(* (src/core/generateScript.ts): resolveWithDeps, uniqueKeepOrder,        *)
(* escapeForDoubleQuotes, applyVars and generateScript.                   *)
(*                                                                         *)
(* Text is a sequence of units.  A unit is one character ("{", "}", "$",  *)
(* ...) or an indivisible run of characters: an identifier run such as    *)
(* "git_name" (only characters of [a-zA-Z0-9_]) or a literal chunk that   *)
(* neither starts nor ends with a brace or an identifier character.       *)
(***************************************************************************)
EXTENDS Integers, Sequences, FiniteSets, TLC

VARIABLES MODULES, input, st, tpl, tvars, applied, raw, esc, epc,
          calls, useq, uniq, selectedIds, lastOp

\* the variables of the specifications of concurrent calls, of uniqueKeepOrder
\* on its own and of the selection list of the interface
rest == <<calls, useq, uniq, selectedIds, lastOp>>

vars == <<MODULES, input, st, tpl, tvars, applied, raw, esc, epc, rest>>

(* ------------------------------ bounds --------------------------------- *)

\* most requires entries in a generated registry, all modules together
MaxEdges == 3

\* longest generated selectedIds
MaxSelected == 2

\* longest selectedIds tried against the shipped registry
MaxShippedSelected == 1

\* most chunks of a generated template
MaxTemplate == 5

\* longest generated value given to escapeForDoubleQuotes alone
MaxValue == 3

\* longest sequence given to uniqueKeepOrder alone
MaxSequence == 5

\* longest selectedIds of a call running together with another call
MaxConcurrentSelected == 1

(* ------------------------------ helpers -------------------------------- *)

SeqsUpTo(S, n) == UNION {[1..k -> S] : k \in 0..n}

RECURSIVE Concat(_)
Concat(ss) == IF ss = <<>> THEN <<>> ELSE Head(ss) \o Concat(Tail(ss))

Last(s) == s[Len(s)]

Front(s) == SubSeq(s, 1, Len(s) - 1)

(* ------------------------- optional values ----------------------------- *)

\* A value that may be undefined is a sequence of length 0 (undefined) or 1.
None == <<>>

Some(x) == <<x>>

\* Map.prototype.get: the entry, undefined when the key is absent
MapGet(m, k) == IF k \in DOMAIN m THEN Some(m[k]) ELSE None

\* x ?? d
Nullish(x, d) == IF x = None THEN d ELSE x[1]

(* ------------------------------ registry ------------------------------- *)

OS == {"mac", "ubuntu"}

\* mapById(): new Map(MODULES.map(m => [m.id, m])); a later entry with the
\* same id replaces an earlier one
mapById(mods) ==
    [id \in {mods[n].id : n \in DOMAIN mods} |->
        mods[CHOOSE n \in DOMAIN mods :
                /\ mods[n].id = id
                /\ \A m \in DOMAIN mods : mods[m].id = id => m <= n]]

ById == mapById(MODULES)

(* --------------------- escaping and substitution ----------------------- *)

Backslash == "\\"

DQuote == "\""

Dollar == "$"

\* the grave accent (U+0060), written by name
Backtick == "<grave>"

\* units matching [a-zA-Z0-9_]+ as a whole
IdentUnits == {"a", "k", "constructor", "git_name", "git_email", "ssh_email"}

IsIdent(u) == u \in IdentUnits

\* JavaScript values met by the substitution: strings and the members every
\* plain object inherits from Object.prototype
StringVal(t) == [type |-> "string", text |-> t]

FunctionVal == [type |-> "function", text |-> <<>>]

\* property names a plain object ({...vars}) inherits from Object.prototype
ObjectPrototypeKeys ==
    {<<"constructor">>, <<"toString">>, <<"valueOf">>, <<"hasOwnProperty">>,
     <<"isPrototypeOf">>, <<"propertyIsEnumerable">>, <<"toLocaleString">>}

\* vars[key] on a plain object: own property, else inherited, else undefined
PropGet(vs, key) ==
    IF key \in DOMAIN vs THEN Some(StringVal(vs[key]))
    ELSE IF key \in ObjectPrototypeKeys THEN Some(FunctionVal)
    ELSE None

Returned(t) == [threw |-> FALSE, text |-> t]

\* TypeError: v.replace is not a function
Thrown == [threw |-> TRUE, text |-> <<>>]

RECURSIVE replaceAll(_, _, _)
\* v.replace(/c/g, rep): every occurrence of the character c becomes rep
replaceAll(v, c, rep) ==
    IF v = <<>> THEN <<>>
    ELSE (IF Head(v) = c THEN rep ELSE <<Head(v)>>) \o replaceAll(Tail(v), c, rep)

\* escapePass with the backslash escaped last instead of first
escapePassBackslashLast(n, v) ==
    IF n = 0 THEN replaceAll(v, DQuote, <<Backslash, DQuote>>)
    ELSE IF n = 1 THEN replaceAll(v, Dollar, <<Backslash, Dollar>>)
    ELSE IF n = 2 THEN replaceAll(v, Backtick, <<Backslash, Backtick>>)
    ELSE replaceAll(v, Backslash, <<Backslash, Backslash>>)

\* the n-th replace call of escapeForDoubleQuotes (n = 0..3), in source order
escapePass(n, v) ==
    IF n = 0 THEN replaceAll(v, Backslash, <<Backslash, Backslash>>)
    ELSE IF n = 1 THEN replaceAll(v, DQuote, <<Backslash, DQuote>>)
    ELSE IF n = 2 THEN replaceAll(v, Dollar, <<Backslash, Dollar>>)
    ELSE replaceAll(v, Backtick, <<Backslash, Backtick>>)

\* escapeForDoubleQuotes on a string: the chain of the four replace calls
escapeText(v) == escapePass(3, escapePass(2, escapePass(1, escapePass(0, v))))

\* escapeForDoubleQuotes on any value: only a string has .replace
escapeForDoubleQuotes(v) ==
    IF v.type = "string" THEN Returned(escapeText(v.text)) ELSE Thrown

RECURSIVE identRun(_, _)
\* identRun for the regex without the +: one identifier character at most
identRunOne(t, p) == IF p <= Len(t) /\ IsIdent(t[p]) THEN 1 ELSE 0

\* [a-zA-Z0-9_]+ is greedy: the identifier units of t in a row from position p
identRun(t, p) ==
    IF p <= Len(t) /\ IsIdent(t[p]) THEN 1 + identRun(t, p + 1) ELSE 0

\* /\{\{([a-zA-Z0-9_]+)\}\}/ tried at position p of t: the units the match
\* spans, 0 when there is no match at p
matchAt(t, p) ==
    LET n == identRun(t, p + 2)
    IN  IF /\ p + 3 + n <= Len(t)
           /\ t[p] = "{" /\ t[p + 1] = "{"
           /\ n >= 1
           /\ t[p + 2 + n] = "}" /\ t[p + 3 + n] = "}"
        THEN n + 4 ELSE 0

\* the replace callback: (_, key) => escapeForDoubleQuotes(vars[key] ?? "")
replaceCallback(key, vs) ==
    escapeForDoubleQuotes(Nullish(PropGet(vs, key), StringVal(<<>>)))

RECURSIVE replacePieces(_, _, _)
\* script.replace(regex /g, callback) from position p: the output as pieces,
\* one per copied unit (rep = FALSE) and one per replaced match (rep = TRUE)
replacePieces(t, p, vs) ==
    IF p > Len(t) THEN <<>>
    ELSE LET m == matchAt(t, p)
         IN  IF m = 0
             THEN <<[rep |-> FALSE, threw |-> FALSE, text |-> <<t[p]>>]>>
                  \o replacePieces(t, p + 1, vs)
             ELSE LET r == replaceCallback(SubSeq(t, p + 2, p + m - 3), vs)
                  IN  <<[rep |-> TRUE, threw |-> r.threw, text |-> r.text]>>
                      \o replacePieces(t, p + m, vs)

applyVars(script, vs) ==
    LET ps == replacePieces(script, 1, vs)
    IN  IF \E n \in DOMAIN ps : ps[n].threw THEN Thrown
        ELSE Returned(Concat([n \in DOMAIN ps |-> ps[n].text]))

(* ----------------------------- generateScript -------------------------- *)

\* blocks.push of the header template literal
Preamble(os) ==
    <<"#!/usr/bin/env bash\nset -e\n\necho \"====\"\necho \"AI Lab Install Script Builder - RUN\"\necho \"OS: ",
      os, "\"\necho \"====\"\n">>

\* the line pushed for a module without a script for the OS
SkipNotice(mod, os) ==
    <<"echo \"[SKIP] ">> \o mod.name \o <<" (not supported on ", os, ")\"">>

\* the comment block pushed before a module's fragment
Banner(mod) ==
    <<"\n# ----\n# ">> \o mod.name \o <<" (", mod.id, ")\n# ----\n">>

\* blocks.push of the closing template literal
Footer == <<"\necho \"====\"\necho \"[DONE] Script finished.\"\necho \"====\"\n">>

RECURSIVE Join(_)
\* blocks.join("\n")
Join(blocks) ==
    IF blocks = <<>> THEN <<>>
    ELSE IF Len(blocks) = 1 THEN blocks[1]
    ELSE blocks[1] \o <<"\n">> \o Join(Tail(blocks))

RECURSIVE uniqueLoop(_, _, _)
\* uniqueLoop without the Set: every id is kept
uniqueLoopKeepAll(ids, s, r) == ids

\* the for loop of uniqueKeepOrder: s the Set, r the result so far
uniqueLoop(ids, s, r) ==
    IF ids = <<>> THEN r
    ELSE IF Head(ids) \in s THEN uniqueLoop(Tail(ids), s, r)
    ELSE uniqueLoop(Tail(ids), s \cup {Head(ids)}, Append(r, Head(ids)))

uniqueKeepOrder(ids) == uniqueLoop(ids, {}, <<>>)

\* mod.script[input.os]
ScriptFor(mod, os) == IF os \in DOMAIN mod.script THEN Some(mod.script[os]) ELSE None

\* !s for a string or undefined
Falsy(s) == s = None \/ s[1] = <<>>

\* The state of one generateScript call.  stack holds the dfs invocations in
\* progress, innermost last: k = 0 before the body has run, k >= 1 the next
\* position of the for loop over mod.requires.  i and j are the positions of the
\* loops over ids and over ordered.
EntryState ==
    [pc |-> "resolve", i |-> 1, stack |-> <<>>, visited |-> {}, out |-> <<>>,
     withDeps |-> <<>>, ordered |-> <<>>, j |-> 1, blocks |-> <<>>,
     result |-> None]

\* for (const id of ids) dfs(id): the next call
AtForId(s, ids) == s.pc = "resolve" /\ s.stack = <<>> /\ s.i <= Len(ids)

forId(s, ids) ==
    [s EXCEPT !.stack = <<[id |-> ids[s.i], k |-> 0]>>, !.i = @ + 1]

\* dfs, from its entry to the start of the loop over the requirements
AtDfsEnter(s) == s.pc = "resolve" /\ s.stack # <<>> /\ Last(s.stack).k = 0

\* dfsEnter with an unknown id appended to out instead of dropped
dfsEnterKeepUnknown(s, byId) ==
    LET id == Last(s.stack).id
    IN  IF id \in s.visited THEN [s EXCEPT !.stack = Front(@)]
        ELSE IF MapGet(byId, id) = None
             THEN [s EXCEPT !.visited = @ \cup {id}, !.out = Append(@, id),
                            !.stack = Front(@)]
             ELSE [s EXCEPT !.visited = @ \cup {id},
                            !.stack[Len(s.stack)].k = 1]

\* dfsEnter without visited.add(id)
dfsEnterNoMark(s, byId) ==
    LET id == Last(s.stack).id
    IN  IF id \in s.visited THEN [s EXCEPT !.stack = Front(@)]
        ELSE IF MapGet(byId, id) = None THEN [s EXCEPT !.stack = Front(@)]
             ELSE [s EXCEPT !.stack[Len(s.stack)].k = 1]

dfsEnter(s, byId) ==
    LET id == Last(s.stack).id
    IN  IF id \in s.visited THEN [s EXCEPT !.stack = Front(@)]
        ELSE IF MapGet(byId, id) = None
             THEN [s EXCEPT !.visited = @ \cup {id}, !.stack = Front(@)]
             ELSE [s EXCEPT !.visited = @ \cup {id},
                            !.stack[Len(s.stack)].k = 1]

\* dfs: one turn of for (const dep of mod.requires ?? []) dfs(dep), and
\* out.push(id) when the loop is over
AtDfsLoop(s) == s.pc = "resolve" /\ s.stack # <<>> /\ Last(s.stack).k >= 1

\* dfsLoop visiting only the first requirement
dfsLoopFirstOnly(s, byId) ==
    LET f    == Last(s.stack)
        reqs == Nullish(byId[f.id].requires, <<>>)
    IN  IF f.k <= Len(reqs) /\ f.k = 1
        THEN [s EXCEPT !.stack = Append([@ EXCEPT ![Len(@)].k = f.k + 1],
                                        [id |-> reqs[f.k], k |-> 0])]
        ELSE [s EXCEPT !.out = Append(@, f.id), !.stack = Front(@)]

\* dfsLoop with out.push(id) before the loop instead of after it
dfsLoopPreorder(s, byId) ==
    LET f    == Last(s.stack)
        reqs == Nullish(byId[f.id].requires, <<>>)
        out  == IF f.k = 1 THEN Append(s.out, f.id) ELSE s.out
    IN  IF f.k <= Len(reqs)
        THEN [s EXCEPT !.out = out,
                       !.stack = Append([@ EXCEPT ![Len(@)].k = f.k + 1],
                                        [id |-> reqs[f.k], k |-> 0])]
        ELSE [s EXCEPT !.out = out, !.stack = Front(@)]

\* dfsLoop with out.unshift(id) for out.push(id)
dfsLoopUnshift(s, byId) ==
    LET f    == Last(s.stack)
        reqs == Nullish(byId[f.id].requires, <<>>)
    IN  IF f.k <= Len(reqs)
        THEN [s EXCEPT !.stack = Append([@ EXCEPT ![Len(@)].k = f.k + 1],
                                        [id |-> reqs[f.k], k |-> 0])]
        ELSE [s EXCEPT !.out = <<f.id>> \o @, !.stack = Front(@)]

dfsLoop(s, byId) ==
    LET f    == Last(s.stack)
        reqs == Nullish(byId[f.id].requires, <<>>)
    IN  IF f.k <= Len(reqs)
        THEN [s EXCEPT !.stack = Append([@ EXCEPT ![Len(@)].k = f.k + 1],
                                        [id |-> reqs[f.k], k |-> 0])]
        ELSE [s EXCEPT !.out = Append(@, f.id), !.stack = Front(@)]

\* resolveWithDeps returns; ordered = uniqueKeepOrder(withDeps); the header
AtResolved(s, ids) == s.pc = "resolve" /\ s.stack = <<>> /\ s.i > Len(ids)

resolved(s, in) ==
    [s EXCEPT !.withDeps = s.out, !.ordered = uniqueKeepOrder(s.out),
              !.blocks = <<Preamble(in.os)>>, !.j = 1, !.pc = "emit"]

\* one turn of for (const id of ordered)
AtEmitBlock(s) == s.pc = "emit" /\ s.j <= Len(s.ordered)

\* emitBlock taking a module without a script out of ordered
emitBlockDropSkipped(s, in, byId) ==
    LET mod == MapGet(byId, s.ordered[s.j])
    IN  IF mod = None THEN [s EXCEPT !.j = @ + 1]
        ELSE LET frag == ScriptFor(mod[1], in.os)
             IN  IF Falsy(frag)
                 THEN [s EXCEPT !.blocks = Append(@, SkipNotice(mod[1], in.os)),
                                !.ordered = SubSeq(@, 1, s.j - 1) \o SubSeq(@, s.j + 1, Len(@))]
                 ELSE LET r == applyVars(frag[1], in.vars)
                      IN  IF r.threw THEN [s EXCEPT !.pc = "threw"]
                          ELSE [s EXCEPT !.blocks = @ \o <<Banner(mod[1]), r.text>>,
                                         !.j = @ + 1]

\* emitBlock passing over a module without a script in silence
emitBlockSilentSkip(s, in, byId) ==
    LET mod == MapGet(byId, s.ordered[s.j])
    IN  IF mod = None THEN [s EXCEPT !.j = @ + 1]
        ELSE LET frag == ScriptFor(mod[1], in.os)
             IN  IF Falsy(frag) THEN [s EXCEPT !.j = @ + 1]
                 ELSE LET r == applyVars(frag[1], in.vars)
                      IN  IF r.threw THEN [s EXCEPT !.pc = "threw"]
                          ELSE [s EXCEPT !.blocks = @ \o <<Banner(mod[1]), r.text>>,
                                         !.j = @ + 1]

emitBlock(s, in, byId) ==
    LET mod == MapGet(byId, s.ordered[s.j])
    IN  IF mod = None THEN [s EXCEPT !.j = @ + 1]
        ELSE LET frag == ScriptFor(mod[1], in.os)
             IN  IF Falsy(frag)
                 THEN [s EXCEPT !.blocks = Append(@, SkipNotice(mod[1], in.os)),
                                !.j = @ + 1]
                 ELSE LET r == applyVars(frag[1], in.vars)
                      IN  IF r.threw THEN [s EXCEPT !.pc = "threw"]
                          ELSE [s EXCEPT !.blocks = @ \o <<Banner(mod[1]), r.text>>,
                                         !.j = @ + 1]

\* the closing banner and the return value
AtFinish(s) == s.pc = "emit" /\ s.j > Len(s.ordered)

\* finish with the closing banner put before the other pieces
finishFooterFirst(s, in) ==
    LET blocks == <<Footer>> \o s.blocks
    IN  [s EXCEPT !.blocks = blocks, !.pc = "done",
                  !.result = Some([script |-> Join(blocks), includedIds |-> s.ordered])]

\* finish returning the selection itself as includedIds
finishSelected(s, in) ==
    LET blocks == Append(s.blocks, Footer)
    IN  [s EXCEPT !.blocks = blocks, !.pc = "done",
                  !.result = Some([script |-> Join(blocks),
                                   includedIds |-> in.selectedIds])]

finish(s, in) ==
    LET blocks == Append(s.blocks, Footer)
    IN  [s EXCEPT !.blocks = blocks, !.pc = "done",
                  !.result = Some([script |-> Join(blocks), includedIds |-> s.ordered])]

Ended(s) == s.pc \in {"done", "threw"}

\* the statement of resolveWithDeps executed next
resolveStep(s, ids, byId) ==
    IF AtForId(s, ids) THEN forId(s, ids)
    ELSE IF AtDfsEnter(s) THEN dfsEnter(s, byId)
    ELSE dfsLoop(s, byId)

\* the statement a call executes next
step(s, in, byId) ==
    IF AtResolved(s, in.selectedIds) THEN resolved(s, in)
    ELSE IF s.pc = "resolve" THEN resolveStep(s, in.selectedIds, byId)
    ELSE IF AtEmitBlock(s) THEN emitBlock(s, in, byId)
    ELSE finish(s, in)

RECURSIVE run(_, _, _)
\* a call run to its end
run(s, in, byId) == IF Ended(s) THEN s ELSE run(step(s, in, byId), in, byId)

\* generateScript(input) over the registry mods: the final state of the call
generateScript(in, mods) == run(EntryState, in, mapById(mods))

RECURSIVE resolveRun(_, _, _)
resolveRun(s, ids, byId) ==
    IF AtResolved(s, ids) THEN s.out ELSE resolveRun(resolveStep(s, ids, byId), ids, byId)

\* resolveWithDeps(ids, byId): the value returned
resolveWithDeps(ids, byId) == resolveRun(EntryState, ids, byId)

(* ------------------------- generated registries ------------------------ *)

\* the ids of generated registries; an id without a module is an unknown id
Ids == {"a", "b", "c"}

IdOrder == <<"a", "b", "c">>

\* script templates of the generated modules: a runs on both systems and
\* has a placeholder, b runs on mac only, c has no script at all
GenScript(id) ==
    IF id = "a"
    THEN ("mac" :> <<"echo \"", "{", "{", "k", "}", "}", "\" # a on mac\n">>)
         @@ ("ubuntu" :> <<"echo a on ubuntu\n">>)
    ELSE IF id = "b" THEN ("mac" :> <<"echo b on mac\n">>)
    ELSE <<>>

\* a module as the registry declares it; requires is left out when empty
GenModule(id, req) ==
    [id |-> id, name |-> <<"Module ", id>>,
     requires |-> IF req = <<>> THEN None ELSE Some(req),
     script |-> GenScript(id)]

\* the registry with the modules present, each requiring req[id], in IdOrder
GenRegistry(present, req) ==
    LET keep(id) == id \in present
        order    == SelectSeq(IdOrder, keep)
    IN  [n \in DOMAIN order |-> GenModule(order[n], req[order[n]])]

\* the requires lists of a registry, at most MaxEdges entries in total: a
\* sequence e of entries cut in three, one part per id in IdOrder
GenRequires ==
    {[id \in Ids |->
        IF id = IdOrder[1] THEN SubSeq(c[1], 1, c[2])
        ELSE IF id = IdOrder[2] THEN SubSeq(c[1], c[2] + 1, c[3])
        ELSE SubSeq(c[1], c[3] + 1, Len(c[1]))] :
     c \in {x \in SeqsUpTo(Ids, MaxEdges) \X (0..MaxEdges) \X (0..MaxEdges) :
               x[2] <= x[3] /\ x[3] <= Len(x[1])}}

\* every registry over Ids with at most MaxEdges requires entries in total
GenRegistries ==
    {GenRegistry(q[1], q[2]) :
        q \in {x \in (SUBSET Ids) \X GenRequires :
                  \A id \in Ids \ x[1] : x[2][id] = <<>>}}

\* variable maps tried with the generated registries
GenVars == {<<>>, <<"k">> :> <<"v", Dollar>>}

(* --------------------------- shipped registry -------------------------- *)

\* a script fragment without placeholders, as one literal chunk
Fragment(id, os) == <<"# fragment of ", id, " for ", os, "\n">>

GitConfigFragment ==
    <<"\necho \"[GIT-CONFIG] Setting global git identity...\"\ngit config --global user.name \"",
      "{", "{", "git_name", "}", "}",
      "\"\ngit config --global user.email \"",
      "{", "{", "git_email", "}", "}",
      "\"\ngit config --global init.defaultBranch main\ngit config --global fetch.prune true\ngit config --global core.autocrlf input\n">>

GithubSshFragment(os) ==
    <<"# fragment of dev.github_ssh for ", os, ": ssh-keygen -t ed25519 -C \"",
      "{", "{", "ssh_email", "}", "}",
      "\" -f \"$HOME/.ssh/id_ed25519\" -N \"\"\n">>

Shipped(id, name, requires) ==
    [id |-> id, name |-> <<name>>, requires |-> requires,
     script |-> [os \in OS |->
                    IF id = "dev.git_config" THEN GitConfigFragment
                    ELSE IF id = "dev.github_ssh" THEN GithubSshFragment(os)
                    ELSE Fragment(id, os)]]

\* export const MODULES
ShippedMODULES ==
    << Shipped("base.clt", "Xcode Command Line Tools", None),
       Shipped("base.homebrew", "Homebrew", Some(<<"base.clt">>)),
       Shipped("base.apt", "apt update + essentials", None),
       Shipped("dev.git", "Git", Some(<<"base.homebrew">>)),
       Shipped("dev.git_config", "Git: user.name / user.email", Some(<<"dev.git">>)),
       Shipped("lang.nvm", "nvm (Node Version Manager)", Some(<<"dev.git">>)),
       Shipped("lang.node_lts", "Node.js (LTS via nvm)", Some(<<"lang.nvm">>)),
       Shipped("dev.vscode", "VS Code", Some(<<"base.homebrew">>)),
       Shipped("dev.gh_cli", "GitHub CLI (gh)", Some(<<"base.homebrew">>)),
       Shipped("dev.github_ssh", "GitHub SSH Key (ed25519)", None),
       Shipped("cli.ripgrep", "ripgrep (rg)", Some(<<"base.homebrew">>)),
       Shipped("cli.jq", "jq", Some(<<"base.homebrew">>)),
       Shipped("cli.fzf", "fzf", Some(<<"base.homebrew">>)),
       Shipped("cli.bat", "bat", Some(<<"base.homebrew">>)),
       Shipped("cli.eza", "eza", Some(<<"base.homebrew">>)),
       Shipped("shell.starship", "Starship prompt", Some(<<"base.homebrew">>)),
       Shipped("lang.python3", "Python3", Some(<<"base.homebrew">>)),
       Shipped("lang.uv", "uv (fast Python package manager)", Some(<<"lang.python3">>)),
       Shipped("verify.summary", "Verify: print versions summary", None) >>

ShippedIds == {ShippedMODULES[n].id : n \in DOMAIN ShippedMODULES}

\* variable maps tried with the shipped registry
ShippedVars ==
    {<<>>,
     (<<"git_name">> :> <<"O'Brien ", DQuote, "Dev", DQuote>>)
        @@ (<<"git_email">> :> <<"dev@example.com">>)}

(* ------------------------------ the calls ------------------------------ *)

\* values of the variables a specification does not use
IdleInput == [os |-> "mac", selectedIds |-> <<>>, vars |-> <<>>]

IdleState == [EntryState EXCEPT !.pc = "idle"]

CallIdle == MODULES = <<>> /\ input = IdleInput /\ st = IdleState

SubstIdle == tpl = <<>> /\ tvars = <<>> /\ applied = None

EscapeIdle == raw = <<>> /\ esc = <<>> /\ epc = -1

ConcurrentIdle == calls = <<>>

UniqueIdle == useq = None /\ uniq = <<>>

\* no handler of the interface has run yet
NoOp == [op |-> "none", id |-> "", idx |-> -1, prev |-> <<>>]

UiIdle == selectedIds = <<>> /\ lastOp = NoOp

RestIdle == ConcurrentIdle /\ UniqueIdle /\ UiIdle

\* a call of generateScript on a generated registry, at its entry
Init ==
    /\ MODULES \in GenRegistries
    /\ input \in [os : OS, selectedIds : SeqsUpTo(Ids, MaxSelected), vars : GenVars]
    /\ st = EntryState
    /\ SubstIdle /\ EscapeIdle /\ RestIdle

\* a call of generateScript on the shipped registry, at its entry
InitShipped ==
    /\ MODULES = ShippedMODULES
    /\ input \in [os : OS, selectedIds : SeqsUpTo(ShippedIds, MaxShippedSelected),
                  vars : ShippedVars]
    /\ st = EntryState
    /\ SubstIdle /\ EscapeIdle /\ RestIdle

CallUnchanged == UNCHANGED <<MODULES, input, tpl, tvars, applied, raw, esc, epc, rest>>

ForId ==
    /\ AtForId(st, input.selectedIds)
    /\ st' = forId(st, input.selectedIds)
    /\ CallUnchanged

DfsEnter ==
    /\ AtDfsEnter(st)
    /\ st' = dfsEnter(st, ById)
    /\ CallUnchanged

DfsLoop ==
    /\ AtDfsLoop(st)
    /\ st' = dfsLoop(st, ById)
    /\ CallUnchanged

Resolved ==
    /\ AtResolved(st, input.selectedIds)
    /\ st' = resolved(st, input)
    /\ CallUnchanged

EmitBlock ==
    /\ AtEmitBlock(st)
    /\ st' = emitBlock(st, input, ById)
    /\ CallUnchanged

Finish ==
    /\ AtFinish(st)
    /\ st' = finish(st, input)
    /\ CallUnchanged

Next == ForId \/ DfsEnter \/ DfsLoop \/ Resolved \/ EmitBlock \/ Finish

Spec == Init /\ [][Next]_vars

SpecShipped == InitShipped /\ [][Next]_vars

(* ------------- a template naming a member of Object.prototype ---------- *)

\* a fragment whose placeholder is named like a member every plain object
\* inherits
InheritedFragment == <<"echo \"", "{", "{", "constructor", "}", "}", "\"\n">>

\* the registry mods with the mac script of module b replaced by that fragment
WithInheritedKey(mods) ==
    [n \in DOMAIN mods |->
        IF mods[n].id = "b"
        THEN [mods[n] EXCEPT !.script = ("mac" :> InheritedFragment)]
        ELSE mods[n]]

\* variable maps tried with such a registry: without and with the key
InheritedVars == {<<>>, <<"constructor">> :> <<"v">>}

\* a call of generateScript on a registry with such a template, at its entry
InitInherited ==
    /\ MODULES \in {WithInheritedKey(r) : r \in GenRegistries}
    /\ input \in [os : OS, selectedIds : SeqsUpTo(Ids, MaxSelected), vars : InheritedVars]
    /\ st = EntryState
    /\ SubstIdle /\ EscapeIdle /\ RestIdle

SpecInherited == InitInherited /\ [][Next]_vars

(* ------------------------- applyVars on its own ------------------------ *)

\* what generated templates are made of: brace pairs, a lone brace, the
\* identifiers a and constructor, a blank
TemplateChunks ==
    {<<"{", "{">>, <<"}", "}">>, <<"{">>, <<"a">>, <<"constructor">>, <<" ">>}

Templates == {Concat(cs) : cs \in SeqsUpTo(TemplateChunks, MaxTemplate)}

\* variable maps tried with the generated templates
TemplateVars ==
    {<<>>,
     <<"a">> :> <<"a">>,
     <<"a">> :> <<DQuote, Backslash>>,
     <<"a">> :> <<"{", "{", "a", "}", "}">>}

\* applyVars about to be called on a generated template
InitSubst ==
    /\ tpl \in Templates
    /\ tvars \in TemplateVars
    /\ applied = None
    /\ CallIdle /\ EscapeIdle /\ RestIdle

ApplyVars ==
    /\ applied = None
    /\ applied' = Some(applyVars(tpl, tvars))
    /\ UNCHANGED <<MODULES, input, st, tpl, tvars, raw, esc, epc, rest>>

NextSubst == ApplyVars

SpecSubst == InitSubst /\ [][NextSubst]_vars

(* ------------------- escapeForDoubleQuotes on its own ------------------ *)

EscapeUnits == {Backslash, DQuote, Dollar, Backtick, "a"}

\* escapeForDoubleQuotes about to be called on a generated value; epc counts
\* the replace calls made
InitEscape ==
    /\ raw \in SeqsUpTo(EscapeUnits, MaxValue)
    /\ esc = raw
    /\ epc = 0
    /\ CallIdle /\ SubstIdle /\ RestIdle

EscapePass ==
    /\ epc \in 0..3
    /\ esc' = escapePass(epc, esc)
    /\ epc' = epc + 1
    /\ UNCHANGED <<MODULES, input, st, tpl, tvars, applied, raw, rest>>

NextEscape == EscapePass

SpecEscape == InitEscape /\ [][NextEscape]_vars

(* --------------------------- concurrent calls -------------------------- *)

\* the callers whose calls of generateScript are in progress together
Callers == {"x", "y"}

\* the ids the concurrent calls select: their requirements overlap
ConcurrentChoice == {"dev.git_config", "lang.nvm", "dev.github_ssh"}

\* the locals of the call of caller c as every invocation sees them shared:
\* visited hoisted out of resolveWithDeps to module level
localsSharedVisited(cs, c) ==
    [cs[c].st EXCEPT !.visited = UNION {cs[d].st.visited : d \in DOMAIN cs}]

\* the locals the call of caller c works on: byId, visited, out, the dfs
\* invocations, withDeps, ordered and blocks are created by each invocation
localsOf(cs, c) == cs[c].st

\* the callers have called generateScript on the shipped registry, each with
\* its own input
InitConcurrent ==
    /\ MODULES = ShippedMODULES
    /\ calls \in [Callers ->
                    [input : [os : OS,
                              selectedIds : SeqsUpTo(ConcurrentChoice, MaxConcurrentSelected),
                              vars : ShippedVars],
                     st : {EntryState}]]
    /\ input = IdleInput /\ st = IdleState
    /\ SubstIdle /\ EscapeIdle /\ UniqueIdle /\ UiIdle

\* the call of caller c goes on to s; nothing else changes
Proceeds(c, s) ==
    /\ calls' = [calls EXCEPT ![c].st = s]
    /\ UNCHANGED <<MODULES, input, st, tpl, tvars, applied, raw, esc, epc,
                   useq, uniq, selectedIds, lastOp>>

CallForId ==
    \E c \in Callers :
        /\ AtForId(localsOf(calls, c), calls[c].input.selectedIds)
        /\ Proceeds(c, forId(localsOf(calls, c), calls[c].input.selectedIds))

CallDfsEnter ==
    \E c \in Callers :
        /\ AtDfsEnter(localsOf(calls, c))
        /\ Proceeds(c, dfsEnter(localsOf(calls, c), ById))

CallDfsLoop ==
    \E c \in Callers :
        /\ AtDfsLoop(localsOf(calls, c))
        /\ Proceeds(c, dfsLoop(localsOf(calls, c), ById))

CallResolved ==
    \E c \in Callers :
        /\ AtResolved(localsOf(calls, c), calls[c].input.selectedIds)
        /\ Proceeds(c, resolved(localsOf(calls, c), calls[c].input))

CallEmitBlock ==
    \E c \in Callers :
        /\ AtEmitBlock(localsOf(calls, c))
        /\ Proceeds(c, emitBlock(localsOf(calls, c), calls[c].input, ById))

CallFinish ==
    \E c \in Callers :
        /\ AtFinish(localsOf(calls, c))
        /\ Proceeds(c, finish(localsOf(calls, c), calls[c].input))

NextConcurrent ==
    \/ CallForId \/ CallDfsEnter \/ CallDfsLoop
    \/ CallResolved \/ CallEmitBlock \/ CallFinish

SpecConcurrent == InitConcurrent /\ [][NextConcurrent]_vars

(* ----------------------- uniqueKeepOrder on its own -------------------- *)

\* the argument of uniqueKeepOrder and where it comes from
Argument(x, traversal) == [x |-> x, traversal |-> traversal]

\* uniqueKeepOrder about to be called: on any sequence of ids, or, once
\* resolveWithDeps has run, on the output of the traversal of a generated
\* registry.  uniq collects the results of uniqueKeepOrder applied again and
\* again.
InitUnique ==
    /\ \/ /\ MODULES = <<>> /\ input = IdleInput
          /\ useq \in {Some(Argument(x, FALSE)) : x \in SeqsUpTo(Ids, MaxSequence)}
       \/ /\ MODULES \in GenRegistries
          /\ input \in [os : {"mac"}, selectedIds : SeqsUpTo(Ids, MaxSelected), vars : {<<>>}]
          /\ useq = None
    /\ uniq = <<>>
    /\ st = IdleState
    /\ SubstIdle /\ EscapeIdle /\ ConcurrentIdle /\ UiIdle

UniqueUnchanged ==
    UNCHANGED <<MODULES, input, st, tpl, tvars, applied, raw, esc, epc,
                calls, selectedIds, lastOp>>

\* const withDeps = resolveWithDeps(input.selectedIds, byId)
ResolveWithDeps ==
    /\ useq = None
    /\ useq' = Some(Argument(resolveWithDeps(input.selectedIds, ById), TRUE))
    /\ UNCHANGED uniq
    /\ UniqueUnchanged

\* uniqueKeepOrder applied to the argument, then to its own result
UniqueKeepOrder ==
    /\ useq # None
    /\ Len(uniq) < 2
    /\ uniq' = Append(uniq, uniqueKeepOrder(IF uniq = <<>> THEN useq[1].x ELSE Last(uniq)))
    /\ UNCHANGED useq
    /\ UniqueUnchanged

NextUnique == ResolveWithDeps \/ UniqueKeepOrder

SpecUnique == InitUnique /\ [][NextUnique]_vars

(* ------------------ the selection list of the interface ---------------- *)

\* the ids that can stand in selectedIds: three shipped modules and an id,
\* saved by an earlier session, that names no module of the registry
UiChoice == {"dev.git", "dev.git_config", "lang.nvm", "gone.module"}

\* what reading an array element that was never assigned gives
Undefined == "<undefined>"

\* a[i], i counted from 0
ArrayGet(a, i) == IF i >= 0 /\ i < Len(a) THEN a[i + 1] ELSE Undefined

\* a[i] = v, i counted from 0: past its end the array grows, leaving holes
ArraySet(a, i, v) ==
    [n \in 1..(IF i + 1 > Len(a) THEN i + 1 ELSE Len(a)) |->
        IF n = i + 1 THEN v ELSE IF n <= Len(a) THEN a[n] ELSE Undefined]

\* [a[i], a[j]] = [a[j], a[i]]
swap(a, i, j) == ArraySet(ArraySet(a, i, ArrayGet(a, j)), j, ArrayGet(a, i))

\* addModule appending without looking the id up
addModuleAlways(prev, id) == Append(prev, id)

\* the updater of addModule
addModule(prev, id) ==
    IF \E n \in DOMAIN prev : prev[n] = id THEN prev ELSE Append(prev, id)

\* the updater of removeModule
removeModule(prev, id) ==
    LET other(x) == x # id IN SelectSeq(prev, other)

\* moveUp, its early return included
moveUp(prev, idx) == IF idx <= 0 THEN prev ELSE swap(prev, idx - 1, idx)

\* the updater of moveDown
moveDown(prev, idx) ==
    IF idx < 0 \/ idx >= Len(prev) - 1 THEN prev ELSE swap(prev, idx, idx + 1)

\* the ids of selectedModules, the pipeline whose rows carry the buttons:
\* the selected ids that name a module
selectedModules(ids, byId) ==
    LET known(id) == MapGet(byId, id) # None IN SelectSeq(ids, known)

\* the interface starts from a saved selectedIds without repeated ids
InitUi ==
    /\ MODULES = ShippedMODULES
    /\ selectedIds \in {q \in SeqsUpTo(UiChoice, Cardinality(UiChoice)) :
                           \A m, n \in DOMAIN q : q[m] = q[n] => m = n}
    /\ lastOp = NoOp
    /\ input = IdleInput /\ st = IdleState
    /\ SubstIdle /\ EscapeIdle /\ ConcurrentIdle /\ UniqueIdle

UiUnchanged ==
    UNCHANGED <<MODULES, input, st, tpl, tvars, applied, raw, esc, epc,
                calls, useq, uniq>>

\* the Add button of a module of the registry
AddModule ==
    \E id \in UiChoice \cap ShippedIds :
        /\ selectedIds' = addModule(selectedIds, id)
        /\ lastOp' = [op |-> "addModule", id |-> id, idx |-> -1, prev |-> selectedIds]
        /\ UiUnchanged

\* removeModule, called with any id
RemoveModule ==
    \E id \in UiChoice :
        /\ selectedIds' = removeModule(selectedIds, id)
        /\ lastOp' = [op |-> "removeModule", id |-> id, idx |-> -1, prev |-> selectedIds]
        /\ UiUnchanged

\* the up button of the pipeline row idx
MoveUp ==
    \E idx \in 0..(Len(selectedModules(selectedIds, ById)) - 1) :
        /\ selectedIds' = moveUp(selectedIds, idx)
        /\ lastOp' = [op |-> "moveUp", id |-> "", idx |-> idx, prev |-> selectedIds]
        /\ UiUnchanged

\* the down button of the pipeline row idx
MoveDown ==
    \E idx \in 0..(Len(selectedModules(selectedIds, ById)) - 1) :
        /\ selectedIds' = moveDown(selectedIds, idx)
        /\ lastOp' = [op |-> "moveDown", id |-> "", idx |-> idx, prev |-> selectedIds]
        /\ UiUnchanged

NextUi == AddModule \/ RemoveModule \/ MoveUp \/ MoveDown

SpecUi == InitUi /\ [][NextUi]_vars

(* =============================== claims ================================ *)

Range(q) == {q[n] : n \in DOMAIN q}

NoDup(q) == \A m, n \in DOMAIN q : q[m] = q[n] => m = n

\* the first position of x in q (x occurs in q)
Pos(q, x) == CHOOSE n \in DOMAIN q : q[n] = x /\ \A m \in DOMAIN q : q[m] = x => n <= m

Count(q, x) == Cardinality({n \in DOMAIN q : q[n] = x})

IsPrefix(p, q) == Len(p) <= Len(q) /\ SubSeq(q, 1, Len(p)) = p

DeleteAt(q, n) == SubSeq(q, 1, n - 1) \o SubSeq(q, n + 1, Len(q))

Done == st.pc = "done"

IncludedIds == st.result[1].includedIds

Selected == Range(input.selectedIds)

Known == DOMAIN ById

\* the ids the module id names in its requires list (none for an unknown id)
Req(id) == IF id \in Known THEN Range(Nullish(ById[id].requires, <<>>)) ELSE {}

RECURSIVE Closure(_)
\* S with everything required, directly or through a chain, by a member
Closure(S) ==
    LET T == S \cup UNION {Req(x) : x \in S}
    IN  IF T = S THEN S ELSE Closure(T)

\* the ids required by a member of S, directly or through a chain
Required(S) == Closure(UNION {Req(x) : x \in S})

\* C1: when the call has returned, every id of a registry module that a
\* selected id requires, directly or through a chain of requires lists, is in
\* includedIds.
C1_DependencyClosure ==
    Done => \A d \in Required(Selected) \cap Known : d \in Range(IncludedIds)

\* a returned call that included a module no selected id names directly
C1_Witness ==
    /\ Done
    /\ \E d \in Required(Selected) \cap Known :
          /\ d \notin Selected
          /\ \A x \in Selected : d \notin Req(x)
          /\ d \in Range(IncludedIds)

\* C2 as stated: every requirement of an included module that is itself
\* included stands strictly before the module.
C2_TopologicalOrder_Stated ==
    Done => \A m \in Range(IncludedIds) : \A d \in Req(m) \cap Range(IncludedIds) :
                Pos(IncludedIds, d) < Pos(IncludedIds, m)

\* C2 amended: every included requirement d of an included module m stands
\* strictly before m, unless d in turn requires m (directly or through a
\* chain), that is unless m and d lie on a dependency cycle.
C2_TopologicalOrder ==
    Done => \A m \in Range(IncludedIds) : \A d \in Req(m) \cap Range(IncludedIds) :
                m \notin Required({d})
                    => Pos(IncludedIds, d) < Pos(IncludedIds, m)

\* a returned call with a dependency placed before its dependent while the
\* registry also holds a cycle the selection reaches
C2_Witness ==
    /\ Done
    /\ \E m \in Range(IncludedIds) : \E d \in Req(m) \cap Range(IncludedIds) :
          m \notin Required({d}) /\ Pos(IncludedIds, d) < Pos(IncludedIds, m)
    /\ \E x \in Range(IncludedIds) : x \in Required({x})

\* C3: includedIds never holds the same id twice.
C3_NoDuplicates == Done => NoDup(IncludedIds)

\* a returned call whose selection repeats an id and in which two different
\* included modules require the same included module
C3_Witness ==
    /\ Done
    /\ ~NoDup(input.selectedIds)
    /\ \E d \in Range(IncludedIds) : \E x, y \in Range(IncludedIds) :
          x # y /\ d \in Req(x) /\ d \in Req(y)

RECURSIVE SumOver(_, _)
\* the sum of f[x] over the set or sequence domain S
SumOver(f, S) ==
    IF S = {} THEN 0
    ELSE LET x == CHOOSE y \in S : TRUE IN f[x] + SumOver(f, S \ {x})

ReqLen(id) == Len(Nullish(ById[id].requires, <<>>))

\* An upper bound on the steps a call still has to make: a module not yet
\* visited costs one loop turn and one dfs entry per requirement plus the turn
\* that pushes it; a dfs invocation costs what is left of it; every selected id
\* not yet looked at costs the call and its entry; then the assembly.
Work(s) ==
    LET unvisited == Known \ s.visited
        frameWork(f) == IF f.k = 0 THEN 1 ELSE 2 * (ReqLen(f.id) - f.k + 1) + 1
    IN    SumOver([m \in unvisited |-> 2 * ReqLen(m) + 1], unvisited)
        + SumOver([n \in DOMAIN s.stack |-> frameWork(s.stack[n])], DOMAIN s.stack)
        + (IF s.pc = "resolve"
           THEN 2 * (Len(input.selectedIds) - s.i + 1) + Cardinality(Known) + 2
           ELSE IF s.pc = "emit" THEN Len(s.ordered) - s.j + 2
           ELSE 0)

\* the modules on a dependency cycle that the selection reaches
CycleModules == {x \in Closure(Selected) \cap Known : x \in Required({x})}

\* some statement of the call can be executed next
CanStep(s) ==
    \/ AtForId(s, input.selectedIds) \/ AtDfsEnter(s) \/ AtDfsLoop(s)
    \/ AtResolved(s, input.selectedIds) \/ AtEmitBlock(s) \/ AtFinish(s)

\* C4: when the selection reaches a dependency cycle (a module requiring
\* itself included), the call terminates: every step lowers the natural
\* number Work and leaves the call ended or able to step again, so the call
\* ends within Work(EntryState) steps; and when it returns, each module of the
\* cycle is in includedIds exactly once.
C4_CycleSafety ==
    [][CycleModules # {} =>
         /\ Work(st') < Work(st)
         /\ Work(st') >= 0
         /\ Ended(st') \/ CanStep(st')
         /\ st'.pc = "done" =>
                \A x \in CycleModules : Count(st'.result[1].includedIds, x) = 1]_vars

\* a returned call whose selection reached a cycle of two modules
C4_Witness ==
    /\ Done
    /\ \E x, y \in CycleModules : x # y /\ y \in Req(x) /\ x \in Req(y)
    /\ \A x \in CycleModules : Count(IncludedIds, x) = 1

\* the positions of selectedIds holding an id without a module
UnknownSelected == {n \in DOMAIN input.selectedIds : input.selectedIds[n] \notin Known}

\* the places <<module, position>> of requires lists holding an id without a module
UnknownRequired ==
    {q \in (DOMAIN MODULES) \X (1..MaxEdges) :
        /\ MODULES[q[1]].requires # None
        /\ q[2] <= Len(MODULES[q[1]].requires[1])
        /\ MODULES[q[1]].requires[1][q[2]] \notin Known}

\* the registry without the entry at position n of the requires list of module m
DeleteRequired(mods, m, n) == [mods EXCEPT ![m].requires = Some(DeleteAt(@[1], n))]

\* C5: deleting one occurrence of an id that names no module, from
\* selectedIds or from a requires list, leaves the returned script and
\* includedIds exactly as they are.
C5_UnknownReferenceTolerance ==
    Done =>
        /\ \A n \in UnknownSelected :
              generateScript([input EXCEPT !.selectedIds = DeleteAt(@, n)],
                             MODULES).result = st.result
        /\ \A q \in UnknownRequired :
              generateScript(input, DeleteRequired(MODULES, q[1], q[2])).result
                  = st.result

\* a returned call with an unknown id selected, an unknown id required by an
\* included module, and a known module included
C5_Witness ==
    /\ Done
    /\ UnknownSelected # {}
    /\ \E q \in UnknownRequired : MODULES[q[1]].id \in Range(IncludedIds)

\* text q holds a token: two opening braces, one or more identifier
\* characters, two closing braces
HasToken(q) ==
    \E m, n \in DOMAIN q :
        /\ n >= m + 4
        /\ q[m] = "{" /\ q[m + 1] = "{" /\ q[n - 1] = "}" /\ q[n] = "}"
        /\ \A x \in (m + 2)..(n - 2) : IsIdent(q[x])

\* the output of a replace with every replacement shown as one opaque unit
Skeleton(ps) ==
    Concat([n \in DOMAIN ps |-> IF ps[n].rep THEN <<"<value>">> ELSE ps[n].text])

\* C6 as stated: the string applyVars returns holds no token.
C6_SubstitutionTotality_Stated ==
    (applied # None /\ ~applied[1].threw) => ~HasToken(applied[1].text)

\* C6 amended: when applyVars returns, the result is the template with every
\* token found by the left-to-right scan replaced, and the text copied from
\* the template holds no token (each replacement taken as one opaque unit).
\* A token can still be read in the result where a substituted value holds
\* one or completes one with braces next to it: replacements are not scanned.
C6_SubstitutionTotality ==
    (applied # None /\ ~applied[1].threw) =>
        LET ps == replacePieces(tpl, 1, tvars)
        IN  /\ applied[1].text = Concat([n \in DOMAIN ps |-> ps[n].text])
            /\ ~HasToken(Skeleton(ps))

\* applyVars returned a string that holds a token although a token of the
\* template was replaced
C6_Witness ==
    /\ applied # None /\ ~applied[1].threw
    /\ HasToken(applied[1].text)
    /\ \E n \in DOMAIN replacePieces(tpl, 1, tvars) : replacePieces(tpl, 1, tvars)[n].rep

Specials == {Backslash, DQuote, Dollar, Backtick}

RECURSIVE Decode(_)
\* what a double-quoted shell word makes of e: a backslash before one of
\* \ " $ and the grave accent yields that character
Decode(e) ==
    IF e = <<>> THEN <<>>
    ELSE IF Head(e) = Backslash /\ Len(e) >= 2 /\ e[2] \in Specials
         THEN <<e[2]>> \o Decode(SubSeq(e, 3, Len(e)))
         ELSE <<Head(e)>> \o Decode(Tail(e))

RECURSIVE BackslashesBefore(_, _)
\* the backslashes in a row that end just before position p of e
BackslashesBefore(e, p) ==
    IF p > 1 /\ e[p - 1] = Backslash THEN 1 + BackslashesBefore(e, p - 1) ELSE 0

\* C7: when escapeForDoubleQuotes has made its four replace calls, decoding
\* the result by the double-quote rule gives back the value; every " $ and
\* grave accent of the result follows a backslash that is not itself escaped;
\* and exactly one backslash was added per escaped character (none doubled).
C7_EscapingRoundTrip ==
    epc = 4 =>
        /\ Decode(esc) = raw
        /\ \A p \in DOMAIN esc :
              esc[p] \in {DQuote, Dollar, Backtick}
                  => BackslashesBefore(esc, p) % 2 = 1
        /\ Len(esc) = Len(raw) + Cardinality({n \in DOMAIN raw : raw[n] \in Specials})
        /\ esc = escapeText(raw)

\* a finished escape of a value with a backslash and another escaped character
C7_Witness ==
    /\ epc = 4
    /\ Backslash \in Range(raw)
    /\ Range(raw) \cap {DQuote, Dollar, Backtick} # {}

\* units m..n of q are a token
IsTokenAt(q, m, n) ==
    /\ n >= m + 4 /\ n <= Len(q)
    /\ q[m] = "{" /\ q[m + 1] = "{" /\ q[n - 1] = "}" /\ q[n] = "}"
    /\ \A x \in (m + 2)..(n - 2) : IsIdent(q[x])

\* the value escaped character by character
RefEscape(v) ==
    Concat([n \in DOMAIN v |-> IF v[n] \in Specials THEN <<Backslash, v[n]>> ELSE <<v[n]>>])

RECURSIVE RefSubst(_, _, _)
\* the reference substitution of q from position m: a token becomes the
\* escaped value of its key, nothing when the map has no such key; any other
\* character is copied
RefSubst(q, m, vs) ==
    IF m > Len(q) THEN <<>>
    ELSE IF \E n \in DOMAIN q : IsTokenAt(q, m, n)
         THEN LET n   == CHOOSE x \in DOMAIN q : IsTokenAt(q, m, x)
                  key == SubSeq(q, m + 2, n - 2)
              IN  (IF key \in DOMAIN vs THEN RefEscape(vs[key]) ELSE <<>>)
                  \o RefSubst(q, n + 1, vs)
         ELSE <<q[m]>> \o RefSubst(q, m + 1, vs)

\* C8: applyVars returns the reference substitution of the template.
C8_ReferenceSubstitution ==
    applied # None => applied[1] = Returned(RefSubst(tpl, 1, tvars))

\* the selected modules, other than d, that name d in their requires list
Needers(d) == {m \in (Selected \cap Known) \ {d} : d \in Req(m)}

\* the member of Needers(d) that comes first in selectedIds
FirstNeeder(d) ==
    CHOOSE m \in Needers(d) :
        \A x \in Needers(d) : Pos(input.selectedIds, m) <= Pos(input.selectedIds, x)

\* the modules that two or more selected modules require
SharedDeps == {d \in Known : Cardinality(Needers(d)) >= 2}

\* C9 as stated: a module required by two selected modules is in includedIds
\* once, at the position directly before the first selected module that
\* requires it; and no step moves an entry already placed in the output.
C9_TieBreak_Stated ==
    [][/\ IsPrefix(st.out, st'.out)
       /\ st'.pc = "done" =>
            /\ st'.result[1].includedIds = st'.out
            /\ \A d \in SharedDeps :
                  LET inc == st'.result[1].includedIds
                  IN  /\ Count(inc, d) = 1
                      /\ Pos(inc, d) + 1 = Pos(inc, FirstNeeder(d))]_vars

\* C9 amended: a module d required by two selected modules is in includedIds
\* once, before (not always directly before) the first selected module that
\* requires it, unless d in turn requires that module directly or through a
\* chain; and no step moves an entry already placed in the output.
C9_TieBreak ==
    [][/\ IsPrefix(st.out, st'.out)
       /\ st'.pc = "done" =>
            /\ st'.result[1].includedIds = st'.out
            /\ \A d \in SharedDeps :
                  LET inc == st'.result[1].includedIds
                  IN  /\ Count(inc, d) = 1
                      /\ FirstNeeder(d) \notin Required({d})
                            => Pos(inc, d) < Pos(inc, FirstNeeder(d))]_vars

\* a returned call in which a module required by two selected modules stands
\* before the first of them, with another module in between
C9_Witness ==
    /\ Done
    /\ \E d \in SharedDeps :
          /\ FirstNeeder(d) \notin Required({d})
          /\ Count(IncludedIds, d) = 1
          /\ Pos(IncludedIds, d) + 1 < Pos(IncludedIds, FirstNeeder(d))

\* C10: on the shipped registry, selecting dev.git_config alone returns
\* includedIds = base.clt, base.homebrew, dev.git, dev.git_config, in this
\* order, for either OS and any variable map.
C10_ShippedGitConfig ==
    (Done /\ input.selectedIds = <<"dev.git_config">>)
        => IncludedIds = <<"base.clt", "base.homebrew", "dev.git", "dev.git_config">>

\* the call on dev.git_config alone has returned, for ubuntu and with values
C10_Witness ==
    /\ Done
    /\ input.selectedIds = <<"dev.git_config">>
    /\ input.os = "ubuntu"
    /\ input.vars # <<>>

\* the module of the block the loop over ordered is about to emit has no
\* script for the requested OS
Skipping(s) ==
    /\ AtEmitBlock(s)
    /\ s.ordered[s.j] \in Known
    /\ Falsy(ScriptFor(ById[s.ordered[s.j]], input.os))

\* the included modules without a script for the requested OS
SkippedModules(inc) == {m \in Range(inc) \cap Known : Falsy(ScriptFor(ById[m], input.os))}

\* what a skipped module adds to the script, and where it stands in
\* includedIds; strict says whether a dependent on a cycle with the skipped
\* module has to come after it too
SkipNoticeHolds(strict) ==
    /\ Skipping(st) =>
          /\ st'.blocks = Append(st.blocks, SkipNotice(ById[st.ordered[st.j]], input.os))
          /\ st'.ordered = st.ordered /\ st'.j = st.j + 1
    /\ st'.pc = "done" =>
          LET inc == st'.result[1].includedIds
          IN  /\ \A m \in Closure(Selected) \cap Known :
                    Falsy(ScriptFor(ById[m], input.os)) => m \in Range(inc)
              /\ \A m \in SkippedModules(inc) :
                    /\ Count(st'.blocks, SkipNotice(ById[m], input.os)) = 1
                    /\ Count(st'.blocks, Banner(ById[m])) = 0
                    /\ Req(m) \cap Known \subseteq Range(inc)
                    /\ \A x \in Range(inc) :
                          (m \in Req(x) /\ (strict \/ x \notin Required({m})))
                              => Pos(inc, m) < Pos(inc, x)

\* C11 as stated: a module of the resolved order without a script for the OS
\* adds exactly one piece, the skip notice, and no banner or fragment; it is
\* in includedIds, its requirements are resolved, and every module requiring
\* it comes after it.
C11_SkipNotice_Stated == [][SkipNoticeHolds(TRUE)]_vars

\* C11 amended: as stated, except that a module requiring the skipped module
\* comes after it only when the skipped module does not in turn require that
\* module, directly or through a chain.
C11_SkipNotice == [][SkipNoticeHolds(FALSE)]_vars

\* a returned call with a skipped module that has an included requirement and
\* an included dependent placed after it
C11_Witness ==
    /\ Done
    /\ \E m \in SkippedModules(IncludedIds) :
          /\ Count(st.blocks, SkipNotice(ById[m], input.os)) = 1
          /\ Req(m) \cap Known \cap Range(IncludedIds) # {}
          /\ \E x \in Range(IncludedIds) :
                m \in Req(x) /\ x \notin Required({m})
                    /\ Pos(IncludedIds, m) < Pos(IncludedIds, x)

RECURSIVE ModuleBlocks(_)
\* the pieces the modules of ids stand for, in the order of ids: the banner
\* and the substituted fragment, or the skip notice
ModuleBlocks(ids) ==
    IF ids = <<>> THEN <<>>
    ELSE LET id   == Head(ids)
             frag == IF id \in Known THEN ScriptFor(ById[id], input.os) ELSE None
             own  == IF id \notin Known THEN <<>>
                     ELSE IF Falsy(frag) THEN <<SkipNotice(ById[id], input.os)>>
                     ELSE <<Banner(ById[id]), applyVars(frag[1], input.vars).text>>
         IN  own \o ModuleBlocks(Tail(ids))

\* C12: the returned script is the newline-join of the preamble, one block per
\* id of includedIds in includedIds order (banner and substituted fragment, or
\* the skip notice) and the completion banner, also for an empty selection;
\* while the blocks are emitted, the pieces so far are the preamble followed by
\* the blocks of the ids already passed, in order.
C12_ScriptStructure ==
    /\ st.pc = "emit" =>
          st.blocks = <<Preamble(input.os)>> \o ModuleBlocks(SubSeq(st.ordered, 1, st.j - 1))
    /\ Done =>
          /\ st.blocks = <<Preamble(input.os)>> \o ModuleBlocks(IncludedIds) \o <<Footer>>
          /\ st.result[1].script = Join(st.blocks)
          /\ IncludedIds = st.ordered

\* a returned script with a substituted fragment and a skip notice
C12_Witness ==
    /\ Done
    /\ input.vars # <<>>
    /\ \E m, x \in Range(IncludedIds) :
          /\ ~Falsy(ScriptFor(ById[m], input.os))
          /\ ById[m].script[input.os] # applyVars(ById[m].script[input.os], input.vars).text
          /\ Falsy(ScriptFor(ById[x], input.os))
    /\ Len(st.blocks) = 5

\* C13: no call of generateScript throws, and a call that can make no further
\* step has returned its result.
C13_NeverThrows ==
    /\ st.pc # "threw"
    /\ (st.pc # "idle" /\ ~CanStep(st)) => (Done /\ st.result # None)

\* C14: with the steps of several calls interleaved in any order (one call
\* after the other included), every step of a call is the step the call makes
\* when it runs alone on its own input and leaves the other calls as they
\* are, the registry and the inputs are never modified, and a call that has
\* ended is in the state, result included, in which it ends when run alone.
C14_StatelessConcurrent ==
    [][/\ MODULES' = MODULES
       /\ \A c \in Callers :
             /\ calls'[c].input = calls[c].input
             /\ calls'[c].st # calls[c].st =>
                   /\ calls'[c].st = step(calls[c].st, calls[c].input, ById)
                   /\ \A d \in Callers \ {c} : calls'[d] = calls[d]
             /\ Ended(calls'[c].st) =>
                   calls'[c].st = generateScript(calls[c].input, MODULES)]_vars

\* two calls on different selections both under way: one is emitting blocks
\* while the other, in the middle of its traversal, has visited modules the
\* first one includes
C14_Witness ==
    /\ calls # <<>>
    /\ \E c, d \in Callers :
          /\ c # d
          /\ calls[c].input.selectedIds # calls[d].input.selectedIds
          /\ calls[c].st.pc = "emit" /\ calls[c].st.j > 1
          /\ calls[d].st.pc = "resolve" /\ calls[d].st.stack # <<>>
          /\ calls[d].st.out # <<>>
          /\ calls[d].st.visited \cap Range(calls[c].st.ordered) # {}

\* C15: the includedIds a call returns are the resolver's output for its
\* registry and selectedIds, and the call made with any other OS or variable
\* map on the same registry and selectedIds returns the same includedIds,
\* whichever modules got a fragment.
C15_IncludedIdsIndependent ==
    Done =>
        /\ IncludedIds = resolveWithDeps(input.selectedIds, ById)
        /\ \A os \in OS : \A vs \in GenVars :
              LET other == generateScript([input EXCEPT !.os = os, !.vars = vs], MODULES)
              IN  /\ other.pc = "done"
                  /\ other.result[1].includedIds = IncludedIds

\* a returned call that included a module with a fragment for its OS only and
\* a module with a placeholder, so that the script changes with OS and values
C15_Witness ==
    /\ Done
    /\ "a" \in Range(IncludedIds) /\ "b" \in Range(IncludedIds)
    /\ \E os \in OS : \E vs \in GenVars :
          /\ os # input.os /\ vs # input.vars
          /\ generateScript([input EXCEPT !.os = os, !.vars = vs], MODULES).result[1].script
                # st.result[1].script

\* the positions of x holding the first occurrence of their element
FirstPositions(x) == {n \in DOMAIN x : \A m \in 1..(n - 1) : x[m] # x[n]}

\* x restricted to the first occurrence of each element, in the order of x
FirstOccurrences(x) ==
    LET keep == FirstPositions(x)
    IN  [k \in 1..Cardinality(keep) |->
            x[CHOOSE n \in keep : Cardinality({m \in keep : m <= n}) = k]]

\* C16: uniqueKeepOrder returns its argument restricted to the first
\* occurrence of each element, in first-seen order; applied to its own result
\* it returns that result; and applied to the output of resolveWithDeps (for a
\* selection with repeated ids, unknown ids and cycles) it returns that output.
C16_UniqueKeepOrder ==
    /\ Len(uniq) >= 1 =>
          /\ uniq[1] = FirstOccurrences(useq[1].x)
          /\ NoDup(uniq[1]) /\ Range(uniq[1]) = Range(useq[1].x)
          /\ useq[1].traversal => uniq[1] = useq[1].x
    /\ Len(uniq) = 2 => uniq[2] = uniq[1]

\* uniqueKeepOrder was applied twice to a sequence with an element repeated
\* after another element came in between
C16_Witness ==
    /\ Len(uniq) = 2
    /\ ~useq[1].traversal
    /\ \E m, n \in DOMAIN useq[1].x : m + 1 < n /\ useq[1].x[m] = useq[1].x[n]
    /\ Len(uniq[1]) >= 2

\* the registry ids reached from the selected ids that name a module, by
\* following requires lists through modules of the registry only
Reachable == Closure(Selected \cap Known) \cap Known

\* C17: the ids of includedIds are exactly the registry ids reachable from the
\* selected registry ids through requires lists of registry modules; so every
\* included id names a module and every selected id naming a module is
\* included.
C17_ExactReachableSet ==
    Done =>
        /\ Range(IncludedIds) = Reachable
        /\ Range(IncludedIds) \subseteq Known
        /\ Selected \cap Known \subseteq Range(IncludedIds)

\* a returned call that left out a module of the registry and an unknown id
\* which the selection and an included module name
C17_Witness ==
    /\ Done
    /\ Known \ Range(IncludedIds) # {}
    /\ Selected \ Known # {}
    /\ \E m \in Range(IncludedIds) : Req(m) \ Known # {}

\* C18: the output of resolveWithDeps for every initial part of the selection
\* is an initial part of its output for the whole selection: ids appended to
\* the selection only append to the output.
C18_PrefixStability ==
    (st.pc \in {"emit", "done"}) =>
        \A n \in 0..Len(input.selectedIds) :
            IsPrefix(resolveWithDeps(SubSeq(input.selectedIds, 1, n), ById), st.withDeps)

\* a resolved selection of two ids where the second id added entries and the
\* first id alone already gave more than itself
C18_Witness ==
    /\ st.pc = "done"
    /\ Len(input.selectedIds) = 2
    /\ LET first == resolveWithDeps(SubSeq(input.selectedIds, 1, 1), ById)
       IN  /\ Len(first) >= 2
           /\ Len(st.withDeps) > Len(first)
           /\ IsPrefix(first, st.withDeps)

\* q is p with the entries at positions n and n + 1 exchanged
AdjacentSwapAt(p, q, n) ==
    /\ Len(q) = Len(p) /\ Range(q) = Range(p)
    /\ n >= 1 /\ n < Len(p)
    /\ q[n] = p[n + 1] /\ q[n + 1] = p[n]
    /\ \A m \in DOMAIN p \ {n, n + 1} : q[m] = p[m]

\* C19: starting without repeated ids, after any handlers of the selection
\* list (addModule, removeModule, moveUp and moveDown at a pipeline position)
\* selectedIds holds no id twice; addModule of a selected id, moveUp(0) and
\* moveDown at the last index of selectedIds leave the list as it was; any
\* other moveUp or moveDown exchanges two adjacent entries and nothing else.
C19_SelectionList ==
    /\ NoDup(selectedIds)
    /\ Undefined \notin Range(selectedIds)
    /\ (lastOp.op = "addModule" /\ lastOp.id \in Range(lastOp.prev))
          => selectedIds = lastOp.prev
    /\ (lastOp.op = "moveUp" /\ lastOp.idx = 0) => selectedIds = lastOp.prev
    /\ (lastOp.op = "moveDown" /\ lastOp.idx = Len(lastOp.prev) - 1)
          => selectedIds = lastOp.prev
    /\ (lastOp.op = "moveUp" /\ lastOp.idx > 0)
          => AdjacentSwapAt(lastOp.prev, selectedIds, lastOp.idx)
    /\ (lastOp.op = "moveDown" /\ lastOp.idx < Len(lastOp.prev) - 1)
          => AdjacentSwapAt(lastOp.prev, selectedIds, lastOp.idx + 1)

\* moveDown has exchanged two adjacent entries of a list of three or more ids
C19_Witness ==
    /\ lastOp.op = "moveDown"
    /\ Len(selectedIds) >= 3
    /\ selectedIds # lastOp.prev
    /\ AdjacentSwapAt(lastOp.prev, selectedIds, lastOp.idx + 1)

====
